---- MODULE Spec2Model ----
(***************************************************************************)
(* Propositional inference engine: expression AST, CNF conversion, clause  *)
(* extraction, resolution refutation, and the Horn-KB procedures (forward  *)
(* chaining, backward chaining, truth table) it is cross-checked against.  *)
(* Strings of the program are TLA+ strings; Python lists are sequences,    *)
(* Python sets are sets.                                                   *)
(***************************************************************************)
EXTENDS Integers, Sequences, FiniteSets, TLC

\* ------------------------------------------------------------------ bounds
\* Largest number of connective nodes of an input Expression.
MaxExprSize == 2

\* Atom identifiers the bounded Expressions are built from.
ExprAtoms == {"a", "b"}

\* ------------------------------------------------------- Expression (AST)
Atom(s) == [type |-> "Atom", symbol |-> s]

Negation(e) == [type |-> "Negation", operand |-> e]

BinaryExpression(t, l, r) == [type |-> t, left |-> l, right |-> r]

Conjunction(l, r) == BinaryExpression("Conjunction", l, r)

Disjunction(l, r) == BinaryExpression("Disjunction", l, r)

Implication(l, r) == BinaryExpression("Implication", l, r)

Biconditional(l, r) == BinaryExpression("Biconditional", l, r)

BinaryTypes == {"Conjunction", "Disjunction", "Implication", "Biconditional"}

IsBinary(e) == e.type \in BinaryTypes

\* The operator text each BinaryExpression subclass passes to its base class.
Operator(t) ==
  CASE t = "Conjunction" -> "&"
    [] t = "Disjunction" -> "||"
    [] t = "Implication" -> "=>"
    [] t = "Biconditional" -> "<=>"

\* __str__ of Atom, Negation and BinaryExpression.
RECURSIVE Str(_)
\* __str__ of BinaryExpression without the parentheses.
Str_without_parentheses(e) ==
  CASE e.type = "Atom" -> e.symbol
    [] e.type = "Negation" -> "~" \o Str(e.operand)
    [] OTHER -> Str(e.left) \o " " \o Operator(e.type) \o " " \o Str(e.right)

Str(e) ==
  CASE e.type = "Atom" -> e.symbol
    [] e.type = "Negation" -> "~" \o Str(e.operand)
    [] OTHER -> "(" \o Str(e.left) \o " " \o Operator(e.type) \o " "
                    \o Str(e.right) \o ")"

\* All Expressions with exactly n connective nodes over the atoms A.
RECURSIVE ExprsOfSize(_, _)
ExprsOfSize(n, A) ==
  IF n = 0 THEN {Atom(s) : s \in A}
  ELSE {Negation(e) : e \in ExprsOfSize(n - 1, A)}
       \cup UNION {{BinaryExpression(t, l, r) :
                       t \in BinaryTypes,
                       l \in ExprsOfSize(i, A),
                       r \in ExprsOfSize(n - 1 - i, A)} : i \in 0..(n - 1)}

Exprs(n, A) == UNION {ExprsOfSize(k, A) : k \in 0..n}

\* --------------------------------------------------------- truth tables
\* evaluate_expression: model.get(symbol, False) for atoms.
RECURSIVE evaluate_expression(_, _)
evaluate_expression(e, model) ==
  CASE e.type = "Atom" ->
         IF e.symbol \in DOMAIN model THEN model[e.symbol] ELSE FALSE
    [] e.type = "Negation" -> ~evaluate_expression(e.operand, model)
    [] e.type = "Conjunction" ->
         evaluate_expression(e.left, model) /\ evaluate_expression(e.right, model)
    [] e.type = "Disjunction" ->
         evaluate_expression(e.left, model) \/ evaluate_expression(e.right, model)
    [] e.type = "Implication" ->
         (~evaluate_expression(e.left, model)) \/ evaluate_expression(e.right, model)
    [] e.type = "Biconditional" ->
         evaluate_expression(e.left, model) = evaluate_expression(e.right, model)

RECURSIVE extract_atoms_from_expr(_)
extract_atoms_from_expr(e) ==
  CASE e.type = "Atom" -> {e.symbol}
    [] e.type = "Negation" -> extract_atoms_from_expr(e.operand)
    [] OTHER -> extract_atoms_from_expr(e.left) \cup extract_atoms_from_expr(e.right)

\* ------------------------------------------------------- CNF conversion
RECURSIVE eliminate_biconditionals(_)
eliminate_biconditionals(e) ==
  CASE e.type = "Biconditional" ->
         Conjunction(Implication(e.left, e.right), Implication(e.right, e.left))
    [] e.type \in BinaryTypes \ {"Biconditional"} ->
         BinaryExpression(e.type, eliminate_biconditionals(e.left),
                                  eliminate_biconditionals(e.right))
    [] e.type = "Negation" -> Negation(eliminate_biconditionals(e.operand))
    [] OTHER -> e

RECURSIVE eliminate_implications(_)
eliminate_implications(e) ==
  CASE e.type = "Implication" -> Disjunction(Negation(e.left), e.right)
    [] e.type \in BinaryTypes \ {"Implication"} ->
         BinaryExpression(e.type, eliminate_implications(e.left),
                                  eliminate_implications(e.right))
    [] e.type = "Negation" -> Negation(eliminate_implications(e.operand))
    [] OTHER -> e

\* A De Morgan pass that forgets to negate the right operand of a negated
\* conjunction.
RECURSIVE move_negations_inward_lost_negation(_)
move_negations_inward_lost_negation(e) ==
  CASE e.type = "Negation" ->
         (CASE e.operand.type = "Negation" ->
                 move_negations_inward_lost_negation(e.operand.operand)
            [] e.operand.type = "Conjunction" ->
                 Disjunction(move_negations_inward_lost_negation(Negation(e.operand.left)),
                             move_negations_inward_lost_negation(e.operand.right))
            [] e.operand.type = "Disjunction" ->
                 Conjunction(move_negations_inward_lost_negation(Negation(e.operand.left)),
                             move_negations_inward_lost_negation(Negation(e.operand.right)))
            [] OTHER -> e)
    [] e.type \in BinaryTypes ->
         BinaryExpression(e.type, move_negations_inward_lost_negation(e.left),
                                  move_negations_inward_lost_negation(e.right))
    [] OTHER -> e

RECURSIVE move_negations_inward(_)
move_negations_inward(e) ==
  CASE e.type = "Negation" ->
         (CASE e.operand.type = "Negation" ->
                 move_negations_inward(e.operand.operand)
            [] e.operand.type = "Conjunction" ->
                 Disjunction(move_negations_inward(Negation(e.operand.left)),
                             move_negations_inward(Negation(e.operand.right)))
            [] e.operand.type = "Disjunction" ->
                 Conjunction(move_negations_inward(Negation(e.operand.left)),
                             move_negations_inward(Negation(e.operand.right)))
            [] OTHER -> e)
    [] e.type \in BinaryTypes ->
         BinaryExpression(e.type, move_negations_inward(e.left),
                                  move_negations_inward(e.right))
    [] OTHER -> e

\* A distribution pass without the branch for a conjunction on the right
\* (lines 101-105).
RECURSIVE distribute_or_over_and_on_the_left(_)
distribute_or_over_and_on_the_left(e) ==
  CASE e.type = "Disjunction" ->
         LET left == distribute_or_over_and_on_the_left(e.left)
             right == distribute_or_over_and_on_the_left(e.right)
         IN  IF left.type = "Conjunction"
             THEN Conjunction(
                    distribute_or_over_and_on_the_left(Disjunction(left.left, right)),
                    distribute_or_over_and_on_the_left(Disjunction(left.right, right)))
             ELSE Disjunction(left, right)
    [] e.type = "Conjunction" ->
         Conjunction(distribute_or_over_and_on_the_left(e.left),
                     distribute_or_over_and_on_the_left(e.right))
    [] e.type = "Negation" -> Negation(distribute_or_over_and_on_the_left(e.operand))
    [] OTHER -> e

RECURSIVE distribute_or_over_and(_)
distribute_or_over_and(e) ==
  CASE e.type = "Disjunction" ->
         LET left == distribute_or_over_and(e.left)
             right == distribute_or_over_and(e.right)
         IN  IF left.type = "Conjunction"
             THEN Conjunction(distribute_or_over_and(Disjunction(left.left, right)),
                              distribute_or_over_and(Disjunction(left.right, right)))
             ELSE IF right.type = "Conjunction"
             THEN Conjunction(distribute_or_over_and(Disjunction(left, right.left)),
                              distribute_or_over_and(Disjunction(left, right.right)))
             ELSE Disjunction(left, right)
    [] e.type = "Conjunction" ->
         Conjunction(distribute_or_over_and(e.left), distribute_or_over_and(e.right))
    [] e.type = "Negation" -> Negation(distribute_or_over_and(e.operand))
    [] OTHER -> e

\* The four passes, in the order convert_to_cnf applies them.
ApplyPass(n, e) ==
  CASE n = 1 -> eliminate_biconditionals(e)
    [] n = 2 -> eliminate_implications(e)
    [] n = 3 -> move_negations_inward(e)
    [] n = 4 -> distribute_or_over_and(e)

convert_to_cnf(e) == ApplyPass(4, ApplyPass(3, ApplyPass(2, ApplyPass(1, e))))

\* ----------------------------------------------------- clause extraction
\* collect_literals: the list of literal strings of one supposed clause,
\* left to right; any other subtree is appended as str(e).
RECURSIVE collect_literals(_)
collect_literals(e) ==
  CASE e.type = "Disjunction" -> collect_literals(e.left) \o collect_literals(e.right)
    [] e.type = "Negation" /\ e.operand.type = "Atom" -> <<"~" \o e.operand.symbol>>
    [] e.type = "Atom" -> <<e.symbol>>
    [] OTHER -> <<Str(e)>>

extract_literals_from_disjunction(e) == collect_literals(e)

Range(s) == {s[i] : i \in DOMAIN s}

\* Clause(literals): the set of the literals, or the empty set for none.
Clause(literals) == Range(literals)

RECURSIVE extract_from_conjunction(_)
extract_from_conjunction(e) ==
  IF e.type = "Conjunction"
  THEN extract_from_conjunction(e.left) \o extract_from_conjunction(e.right)
  ELSE LET literals == extract_literals_from_disjunction(e)
       IN  IF literals # <<>> THEN <<Clause(literals)>> ELSE <<>>

\* extract_clauses_from_cnf: the list of Clauses of a CNF tree.
extract_clauses_from_cnf(cnf_expr) ==
  IF cnf_expr.type \in {"Atom", "Negation", "Disjunction"}
  THEN LET literals == extract_literals_from_disjunction(cnf_expr)
       IN  IF literals # <<>> THEN <<Clause(literals)>> ELSE <<>>
  ELSE extract_from_conjunction(cnf_expr)

\* The subtrees collect_literals reaches the fallback branch for.
RECURSIVE StringifiedInClause(_)
StringifiedInClause(e) ==
  CASE e.type = "Disjunction" -> StringifiedInClause(e.left) \cup StringifiedInClause(e.right)
    [] e.type = "Negation" /\ e.operand.type = "Atom" -> {}
    [] e.type = "Atom" -> {}
    [] OTHER -> {e}

RECURSIVE Stringified(_)
Stringified(e) ==
  IF e.type = "Conjunction"
  THEN Stringified(e.left) \cup Stringified(e.right)
  ELSE StringifiedInClause(e)

\* -------------------------------------------------------- knowledge bases
Rule(premises, conclusion) == [premises |-> premises, conclusion |-> conclusion]

\* KnowledgeBase: a set of facts and a list of rules.
KnowledgeBase(facts, rules) == [kind |-> "Horn", facts |-> facts, rules |-> rules]

\* GeneralKnowledgeBase: a list of sentences.
GeneralKnowledgeBase(sentences) == [kind |-> "General", sentences |-> sentences]

\* ------------------------------------------------------------ resolution
negate_literal(literal) ==
  IF Len(literal) > 0 /\ SubSeq(literal, 1, 1) = "~"
  THEN SubSeq(literal, 2, Len(literal))
  ELSE "~" \o literal

\* resolve with line 176 leaving clause2 whole: the complement stays in the
\* resolvent.
resolve_keeping_complement(clause1, clause2) ==
  {(clause1 \ {lit1}) \cup clause2 :
     lit1 \in {l \in clause1 : negate_literal(l) \in clause2}}

\* resolve: one resolvent per literal of clause1 whose complement is in clause2.
resolve(clause1, clause2) ==
  {(clause1 \ {lit1}) \cup (clause2 \ {negate_literal(lit1)}) :
     lit1 \in {l \in clause1 : negate_literal(l) \in clause2}}

RECURSIVE resolve_in_order(_, _, _)
RECURSIVE resolve_first_pair_only(_, _, _)
\* The loop of resolve leaving at the first complementary pair.
resolve_first_pair_only(literals, clause1, clause2) ==
  IF literals = <<>> THEN <<>>
  ELSE LET lit1 == Head(literals)
           neg_lit1 == negate_literal(lit1)
       IN  IF neg_lit1 \in clause2
           THEN <<(clause1 \ {lit1}) \cup (clause2 \ {neg_lit1})>>
           ELSE resolve_first_pair_only(Tail(literals), clause1, clause2)

\* The list resolve returns when its for loop visits clause1.literals in the
\* order `literals`: a resolvent is appended for each lit1 whose negation is
\* in clause2.
resolve_in_order(literals, clause1, clause2) ==
  IF literals = <<>> THEN <<>>
  ELSE LET lit1 == Head(literals)
           neg_lit1 == negate_literal(lit1)
           new_literals == (clause1 \ {lit1}) \cup (clause2 \ {neg_lit1})
       IN  (IF neg_lit1 \in clause2 THEN <<new_literals>> ELSE <<>>)
           \o resolve_in_order(Tail(literals), clause1, clause2)

\* The clause of a rule with its premises left unnegated.
RuleClauseOfPositivePremises(rule) ==
  Clause(rule.premises \o <<rule.conclusion>>)

RuleClause(rule) ==
  Clause([i \in 1..Len(rule.premises) |-> "~" \o rule.premises[i]]
         \o <<rule.conclusion>>)

convert_horn_kb_to_clauses(kb) ==
  {Clause(<<fact>>) : fact \in kb.facts}
  \cup {RuleClause(kb.rules[i]) : i \in DOMAIN kb.rules}

convert_general_kb_to_clauses(kb) ==
  UNION {Range(extract_clauses_from_cnf(convert_to_cnf(kb.sentences[i]))) :
           i \in DOMAIN kb.sentences}

\* The clause set the saturation loop starts from: the KB's clauses and the
\* clause Clause(['~' + query]).
InitialClauses(kb, query) ==
  (IF kb.kind = "General"
   THEN convert_general_kb_to_clauses(kb)
   ELSE convert_horn_kb_to_clauses(kb))
  \cup {Clause(<<"~" \o query>>)}

max_iterations == 1000

max_clauses == 10000

\* The size test with a limit of one hundred clauses.
TooLargeAtOneHundred(clauses) == Cardinality(clauses) > 100

\* The size test made after new clauses are merged into the working set.
TooLarge(clauses) == Cardinality(clauses) > max_clauses

\* All orders a set can be iterated in.
RECURSIVE Orders(_)
Orders(S) ==
  IF S = {} THEN {<<>>}
  ELSE UNION {{<<first>> \o rest : rest \in Orders(S \ {first})} : first \in S}

\* negate_literal takes one '~' off '~~x' and puts none back on '~x': only on
\* a literal that begins with '~~' does resolve(clause1, clause2) differ from
\* resolve(clause2, clause1).
DoublyNegated(literal) == Len(literal) >= 2 /\ SubSeq(literal, 1, 2) = "~~"

\* clause_list = list(clauses): the set in the order its iteration yields.
\* Where no literal begins with '~~' every order gives the same round, and
\* the empty list stands for all of them.
clause_lists(clauses) ==
  IF \E clause \in clauses : \E literal \in clause : DoublyNegated(literal)
  THEN Orders(clauses)
  ELSE {<<>>}

\* Whether a pair (clause_list[i], clause_list[j]), i < j, has the empty
\* clause among its resolvents.
DerivesEmptyClause(clauses, clause_list) ==
  IF clause_list = <<>>
  THEN \E clause1 \in clauses : \E clause2 \in clauses \ {clause1} :
         {} \in resolve(clause1, clause2)
  ELSE \E i \in DOMAIN clause_list : \E j \in (i + 1)..Len(clause_list) :
         {} \in resolve(clause_list[i], clause_list[j])

\* new_clauses of a round in which no resolvent is empty.
NewClauses(clauses, clause_list) ==
  IF clause_list = <<>>
  THEN UNION {UNION {resolve(clause1, clause2) : clause2 \in clauses \ {clause1}} :
                clause1 \in clauses}
  ELSE UNION {UNION {resolve(clause_list[i], clause_list[j]) :
                       j \in (i + 1)..Len(clause_list)} :
                i \in DOMAIN clause_list}

\* The working set replaced by the round's resolvents.
update_replacing(clauses, new_clauses) == new_clauses

\* clauses.update(new_clauses), line 255.
update(clauses, new_clauses) == clauses \cup new_clauses

\* ------------------------------------------------------ derivation_steps
\* An entry "Iteration {iteration}: Resolved {clause1} and {clause2} to get
\* {resolvent}" of derivation_steps.
Step(iteration, clause1, clause2, resolvent) ==
  [iteration |-> iteration, clause1 |-> clause1, clause2 |-> clause2,
   resolvent |-> resolvent]

\* Any other entry of derivation_steps.
Message(message) == [message |-> message]

IsStep(entry) == "resolvent" \in DOMAIN entry

\* The entries one call resolve(clause1, clause2) adds, for each order the
\* loop of resolve can visit clause1.literals in.
pair_steps(iteration, clause1, clause2) ==
  {[n \in DOMAIN resolve_in_order(literals, clause1, clause2) |->
      Step(iteration, clause1, clause2,
           resolve_in_order(literals, clause1, clause2)[n])] :
     literals \in Orders(clause1)}

\* The entries the pairs (clause_list[i], clause_list[j]) add from the pair
\* (i, j) on, i < j, in the order of the two for loops.
RECURSIVE steps_from(_, _, _, _)
steps_from(iteration, clause_list, i, j) ==
  IF i >= Len(clause_list) THEN {<<>>}
  ELSE IF j > Len(clause_list) THEN steps_from(iteration, clause_list, i + 1, i + 2)
  ELSE {first \o rest :
          first \in pair_steps(iteration, clause_list[i], clause_list[j]),
          rest \in steps_from(iteration, clause_list, i, j + 1)}

\* The position of the first entry whose resolvent is empty, 0 for none.
FirstEmpty(steps) ==
  IF \E n \in DOMAIN steps : steps[n].resolvent = {}
  THEN CHOOSE n \in DOMAIN steps :
         /\ steps[n].resolvent = {}
         /\ \A m \in 1..(n - 1) : steps[m].resolvent # {}
  ELSE 0

\* The entries appended with the empty resolvent left out of the trace.
recorded_without_empty(steps) ==
  IF FirstEmpty(steps) = 0 THEN steps
  ELSE SubSeq(steps, 1, FirstEmpty(steps) - 1)
       \o <<Message("Empty clause derived - proof complete!")>>

\* What a round appends for its resolvents: every entry is appended before the
\* resolvent is tested, and the call returns at the first empty one.
recorded(steps) ==
  IF FirstEmpty(steps) = 0 THEN steps
  ELSE SubSeq(steps, 1, FirstEmpty(steps))
       \o <<Message("Empty clause derived - proof complete!")>>

\* The traces a round over clause_list can add for its resolvents.
round_steps(iteration, clause_list) ==
  {recorded(steps) : steps \in steps_from(iteration, clause_list, 1, 2)}

\* ----------------------------------------------------------- truth table
\* Python's None, True and False as returned in the first component.
PyBool(b) == IF b THEN "True" ELSE "False"

HornSymbols(kb, query) ==
  kb.facts
  \cup UNION {Range(kb.rules[i].premises) \cup {kb.rules[i].conclusion} :
                i \in DOMAIN kb.rules}
  \cup {query}

satisfies_horn_kb(kb, model) ==
  /\ \A fact \in kb.facts : model[fact]
  /\ \A i \in DOMAIN kb.rules :
       ~((\A j \in DOMAIN kb.rules[i].premises : model[kb.rules[i].premises[j]])
         /\ ~model[kb.rules[i].conclusion])

max_variables == 25

horn_truth_table(kb, query) ==
  LET symbols == HornSymbols(kb, query)
  IN  IF Cardinality(symbols) > max_variables
      THEN [result |-> "None", models |-> 0]
      ELSE LET valid_models == {m \in [symbols -> BOOLEAN] : satisfies_horn_kb(kb, m)}
           IN  IF valid_models = {}
               THEN [result |-> "True", models |-> 0]
               ELSE [result |-> PyBool(\A m \in valid_models : m[query]),
                     models |-> Cardinality(valid_models)]

satisfies_general_kb(kb, model) ==
  \A i \in DOMAIN kb.sentences : evaluate_expression(kb.sentences[i], model)

general_truth_table(kb, query) ==
  LET all_atoms == UNION {extract_atoms_from_expr(kb.sentences[i]) :
                            i \in DOMAIN kb.sentences} \cup {query}
  IN  IF Cardinality(all_atoms) > max_variables
      THEN [result |-> "None", models |-> 0]
      ELSE LET valid_models == {m \in [all_atoms -> BOOLEAN] : satisfies_general_kb(kb, m)}
           IN  IF valid_models = {}
               THEN [result |-> "True", models |-> 0]
               ELSE [result |-> PyBool(\A m \in valid_models : m[query]),
                     models |-> Cardinality(valid_models)]

truth_table(kb, query) ==
  IF kb.kind = "General" THEN general_truth_table(kb, query)
  ELSE horn_truth_table(kb, query)

\* ------------------------------------------------------ forward chaining
\* Append x to the list unless it is already in it.
AppendNew(list, x) == IF x \in Range(list) THEN list ELSE Append(list, x)

\* The positions <<rule index, premise index>> in rule order, premise order.
RECURSIVE PremisePositions(_, _, _)
PremisePositions(rules, i, j) ==
  IF i > Len(rules) THEN <<>>
  ELSE IF j > Len(rules[i].premises) THEN PremisePositions(rules, i + 1, 1)
  ELSE <<(<<i, j>>)>> \o PremisePositions(rules, i, j + 1)

\* rule_map[symbol]: the rules having symbol as a premise, one entry per
\* occurrence (rules are named by their index in kb.rules).
RECURSIVE RuleMapOf(_, _, _)
RuleMapOf(rules, positions, symbol) ==
  IF positions = <<>> THEN <<>>
  ELSE LET p == Head(positions)
           rest == RuleMapOf(rules, Tail(positions), symbol)
       IN  IF rules[p[1]].premises[p[2]] = symbol THEN <<p[1]>> \o rest ELSE rest

rule_map(rules, symbol) == RuleMapOf(rules, PremisePositions(rules, 1, 1), symbol)

\* The loop with inferred.add(rule.conclusion) moved above the test of the
\* count: a conclusion is marked the first time one of its premises is popped.
RECURSIVE fc_rules_marking_early(_, _, _)
fc_rules_marking_early(rules, todo, st) ==
  IF todo = <<>> THEN st
  ELSE LET r == Head(todo)
           n == st.count[r] - 1
           c == rules[r].conclusion
           st1 == [st EXCEPT !.count[r] = n, !.inferred = @ \cup {c}]
       IN  IF n = 0 /\ c \notin st.inferred
           THEN fc_rules_marking_early(rules, Tail(todo),
                  [st1 EXCEPT !.agenda = Append(@, c), !.added = Append(@, c)])
           ELSE fc_rules_marking_early(rules, Tail(todo), st1)

\* The loop "for rule in rule_map[symbol]" over the rules named in todo.
\* added is the history of the symbols appended to the agenda at line 39.
RECURSIVE fc_rules(_, _, _)
fc_rules(rules, todo, st) ==
  IF todo = <<>> THEN st
  ELSE LET r == Head(todo)
           n == st.count[r] - 1
           st1 == [st EXCEPT !.count[r] = n]
           c == rules[r].conclusion
       IN  IF n = 0 /\ c \notin st.inferred
           THEN fc_rules(rules, Tail(todo),
                         [st1 EXCEPT !.inferred = @ \cup {c},
                                     !.agenda = Append(@, c),
                                     !.added = Append(@, c)])
           ELSE fc_rules(rules, Tail(todo), st1)

\* The loop "while agenda".
RECURSIVE fc_loop(_, _, _)
fc_loop(rules, query, st) ==
  IF st.agenda = <<>>
  THEN [result |-> "False", entailed |-> st.entailed, added |-> st.added]
  ELSE LET symbol == Head(st.agenda)
           st1 == [st EXCEPT !.agenda = Tail(@), !.entailed = Append(@, symbol)]
       IN  IF symbol = query
           THEN [result |-> "True", entailed |-> st1.entailed, added |-> st1.added]
           ELSE fc_loop(rules, query, fc_rules(rules, rule_map(rules, symbol), st1))

\* forward_chaining; facts is deque(kb.facts), the facts in the order the
\* set happens to be iterated.
forward_chaining(facts, rules, query) ==
  fc_loop(rules, query,
          [inferred |-> {},
           agenda |-> facts,
           entailed |-> <<>>,
           added |-> <<>>,
           count |-> [i \in DOMAIN rules |-> Len(rules[i].premises)]])

\* ----------------------------------------------------- backward chaining
RECURSIVE AppendAllNew(_, _)
AppendAllNew(list, xs) ==
  IF xs = <<>> THEN list ELSE AppendAllNew(AppendNew(list, Head(xs)), Tail(xs))

\* bc_recursive and its two loops; st holds visited and entailed, and each
\* returns them with the truth value in ok.  expanded is the history of the
\* calls that got past the visited test (line 21), in the order they ran.
RECURSIVE bc_recursive(_, _, _)
RECURSIVE bc_rules(_, _, _, _)
RECURSIVE bc_premises(_, _, _, _, _)

bc_state(r, entailed) ==
  [visited |-> r.visited, entailed |-> entailed, expanded |-> r.expanded]

bc_return(ok, r, entailed) ==
  [ok |-> ok, visited |-> r.visited, entailed |-> entailed,
   expanded |-> r.expanded]

bc_premises(kb, premises, j, st, temp_entailed) ==
  IF j > Len(premises)
  THEN [ok |-> TRUE, visited |-> st.visited, entailed |-> st.entailed,
        expanded |-> st.expanded, temp |-> temp_entailed]
  ELSE LET r == bc_recursive(kb, premises[j], st)
       IN  IF ~r.ok
           THEN [ok |-> FALSE, visited |-> r.visited, entailed |-> r.entailed,
                 expanded |-> r.expanded, temp |-> temp_entailed]
           ELSE bc_premises(kb, premises, j + 1, bc_state(r, r.entailed),
                            AppendNew(temp_entailed, premises[j]))

bc_rules(kb, goal, i, st) ==
  IF i > Len(kb.rules)
  THEN bc_return(FALSE, st, st.entailed)
  ELSE IF kb.rules[i].conclusion # goal
  THEN bc_rules(kb, goal, i + 1, st)
  ELSE LET r == bc_premises(kb, kb.rules[i].premises, 1, st, <<>>)
       IN  IF r.ok
           THEN bc_return(TRUE, r,
                          AppendNew(AppendAllNew(r.entailed, r.temp), goal))
           ELSE bc_rules(kb, goal, i + 1, bc_state(r, r.entailed))

\* visited.add(goal) moved below the fact test: a goal that is a fact is never
\* marked.
visit_unless_fact(kb, goal, st) ==
  [visited |-> IF goal \in kb.facts THEN st.visited
               ELSE st.visited \cup {goal},
   entailed |-> st.entailed,
   expanded |-> Append(st.expanded, goal)]

\* visited.add(goal), line 21.
visit(kb, goal, st) ==
  [visited |-> st.visited \cup {goal}, entailed |-> st.entailed,
   expanded |-> Append(st.expanded, goal)]

\* bc_recursive answering True, not False, for a goal already in visited.
bc_recursive_trusting_visited(kb, goal, st) ==
  IF goal \in st.visited
  THEN bc_return(TRUE, st, st.entailed)
  ELSE LET st1 == visit(kb, goal, st)
       IN  IF goal \in kb.facts
           THEN bc_return(TRUE, st1, AppendNew(st1.entailed, goal))
           ELSE bc_rules(kb, goal, 1, st1)

bc_recursive(kb, goal, st) ==
  IF goal \in st.visited
  THEN bc_return(FALSE, st, st.entailed)
  ELSE LET st1 == visit(kb, goal, st)
       IN  IF goal \in kb.facts
           THEN bc_return(TRUE, st1, AppendNew(st1.entailed, goal))
           ELSE bc_rules(kb, goal, 1, st1)

backward_chaining(kb, query) ==
  LET r == bc_recursive(kb, query,
                        [visited |-> {}, entailed |-> <<>>, expanded |-> <<>>])
  IN  [result |-> PyBool(r.ok), entailed |-> r.entailed, visited |-> r.visited,
       expanded |-> r.expanded]

\* [a-z][0-9]* : the atom identifiers of the formula language.
LowerLetters ==
  {"a", "b", "c", "d", "e", "f", "g", "h", "i", "j", "k", "l", "m",
   "n", "o", "p", "q", "r", "s", "t", "u", "v", "w", "x", "y", "z"}

DigitChars == {"0", "1", "2", "3", "4", "5", "6", "7", "8", "9"}

\* ------------------------------------------------------------- tokenizer
\* The characters \s matches among those the bounded texts are made of.
WhitespaceChars == {" "}

\* expression[i], i counted from 0 as in the code.
CharAt(expression, i) == SubSeq(expression, i + 1, i + 1)

\* expression[i:i + len(literal)] == literal
LiteralAt(expression, i, literal) ==
  /\ i + Len(literal) <= Len(expression)
  /\ SubSeq(expression, i + 1, i + Len(literal)) = literal

\* The end of the longest run of characters of the class that starts at i.
RECURSIVE RunEnd(_, _, _)
RunEnd(expression, i, class) ==
  IF i < Len(expression) /\ CharAt(expression, i) \in class
  THEN RunEnd(expression, i + 1, class)
  ELSE i

\* token_patterns, in the order they are tried; a pattern is a literal or
\* one of the two regular expressions \s+ and [a-z][0-9]*.
token_patterns ==
  << [kind |-> "whitespace", token_type |-> "None"],
     [kind |-> "literal", text |-> "<=>", token_type |-> "BICONDITIONAL"],
     [kind |-> "literal", text |-> "=>", token_type |-> "IMPLICATION"],
     [kind |-> "literal", text |-> "||", token_type |-> "DISJUNCTION"],
     [kind |-> "literal", text |-> "&", token_type |-> "CONJUNCTION"],
     [kind |-> "literal", text |-> "~", token_type |-> "NEGATION"],
     [kind |-> "literal", text |-> "(", token_type |-> "LPAREN"],
     [kind |-> "literal", text |-> ")", token_type |-> "RPAREN"],
     [kind |-> "atom", token_type |-> "ATOM"] >>

\* regex.match(expression, i): the end of the match, or -1 for no match.
MatchEnd(pattern, expression, i) ==
  CASE pattern.kind = "whitespace" ->
         IF RunEnd(expression, i, WhitespaceChars) > i
         THEN RunEnd(expression, i, WhitespaceChars) ELSE -1
    [] pattern.kind = "literal" ->
         IF LiteralAt(expression, i, pattern.text)
         THEN i + Len(pattern.text) ELSE -1
    [] pattern.kind = "atom" ->
         IF i < Len(expression) /\ CharAt(expression, i) \in LowerLetters
         THEN RunEnd(expression, i + 1, DigitChars) ELSE -1

\* The index of the first pattern that matches at i, 0 when none does.
FirstMatch(expression, i) ==
  LET matching == {k \in DOMAIN token_patterns :
                     MatchEnd(token_patterns[k], expression, i) # -1}
  IN  IF matching = {} THEN 0
      ELSE CHOOSE k \in matching : \A other \in matching : k <= other

Token(token_type, text) == [type |-> token_type, text |-> text]

RECURSIVE tokenize_from(_, _, _)
\* The loop stepping over a character no pattern matches.
tokenize_from_skipping_unmatched(expression, i, tokens) ==
  IF i >= Len(expression) THEN [raised |-> FALSE, tokens |-> tokens]
  ELSE LET k == FirstMatch(expression, i)
       IN  IF k = 0 THEN tokenize_from(expression, i + 1, tokens)
           ELSE LET end == MatchEnd(token_patterns[k], expression, i)
                    token_type == token_patterns[k].token_type
                IN  tokenize_from(expression, end,
                      IF token_type # "None"
                      THEN Append(tokens, Token(token_type,
                                                SubSeq(expression, i + 1, end)))
                      ELSE tokens)

\* The while loop of tokenize from position i with the tokens made so far.
tokenize_from(expression, i, tokens) ==
  IF i >= Len(expression) THEN [raised |-> FALSE, tokens |-> tokens]
  ELSE LET k == FirstMatch(expression, i)
       IN  IF k = 0
           THEN [raised |-> TRUE, position |-> i,
                 character |-> CharAt(expression, i)]
           ELSE LET end == MatchEnd(token_patterns[k], expression, i)
                    token_type == token_patterns[k].token_type
                IN  tokenize_from(expression, end,
                      IF token_type # "None"
                      THEN Append(tokens, Token(token_type,
                                                SubSeq(expression, i + 1, end)))
                      ELSE tokens)

tokenize(expression) == tokenize_from(expression, 0, <<>>)

\* ---------------------------------------------------- ExpressionParser
\* What a parsing method hands back: the Expression and the position after
\* it, or the ValueError it raised.
Parsed(e, pos) == [raised |-> FALSE, expr |-> e, pos |-> pos]

ValueError(message) == [raised |-> TRUE, message |-> message]

NoToken == [type |-> "None", text |-> ""]

peek(tokens, pos) == IF pos < Len(tokens) THEN tokens[pos + 1] ELSE NoToken

\* consume(expected_type): the position after the token, or the error.
consume(tokens, pos, expected_type) ==
  IF pos < Len(tokens)
  THEN IF tokens[pos + 1].type # expected_type
       THEN ValueError("Expected " \o expected_type \o ", got " \o tokens[pos + 1].type)
       ELSE [raised |-> FALSE, pos |-> pos + 1]
  ELSE ValueError("Unexpected end of expression")

RECURSIVE parse_biconditional(_, _)
RECURSIVE biconditional_loop(_, _, _)
RECURSIVE parse_implication(_, _)
RECURSIVE implication_loop(_, _, _)
RECURSIVE parse_disjunction(_, _)
RECURSIVE disjunction_loop(_, _, _)
RECURSIVE parse_conjunction(_, _)
RECURSIVE conjunction_loop(_, _, _)
RECURSIVE parse_negation(_, _)
RECURSIVE parse_primary(_, _)

\* A ValueError raised by a call leaves the calling method as well; what it
\* returned is otherwise handed on to the rest of the method.
unless_raised(result, rest(_, _)) ==
  IF result.raised THEN result ELSE rest(result.expr, result.pos)

parse_primary(tokens, pos) ==
  LET token == peek(tokens, pos)
  IN  IF token = NoToken THEN ValueError("Unexpected end of expression")
      ELSE IF token.type = "ATOM" THEN Parsed(Atom(token.text), pos + 1)
      ELSE IF token.type = "LPAREN"
      THEN unless_raised(parse_biconditional(tokens, pos + 1),
             LAMBDA inner, after :
               LET closing == consume(tokens, after, "RPAREN")
               IN  IF closing.raised THEN closing ELSE Parsed(inner, closing.pos))
      ELSE ValueError("Unexpected token: " \o token.type)

parse_negation(tokens, pos) ==
  IF peek(tokens, pos).type = "NEGATION"
  THEN unless_raised(parse_negation(tokens, pos + 1),
         LAMBDA operand, after : Parsed(Negation(operand), after))
  ELSE parse_primary(tokens, pos)

conjunction_loop(tokens, left, pos) ==
  IF peek(tokens, pos).type = "CONJUNCTION"
  THEN unless_raised(parse_negation(tokens, pos + 1),
         LAMBDA right, after : conjunction_loop(tokens, Conjunction(left, right), after))
  ELSE Parsed(left, pos)

parse_conjunction(tokens, pos) ==
  unless_raised(parse_negation(tokens, pos),
    LAMBDA left, after : conjunction_loop(tokens, left, after))

disjunction_loop(tokens, left, pos) ==
  IF peek(tokens, pos).type = "DISJUNCTION"
  THEN unless_raised(parse_conjunction(tokens, pos + 1),
         LAMBDA right, after : disjunction_loop(tokens, Disjunction(left, right), after))
  ELSE Parsed(left, pos)

\* parse_disjunction taking its left operand from parse_negation.
parse_disjunction_of_negations(tokens, pos) ==
  unless_raised(parse_negation(tokens, pos),
    LAMBDA left, after : disjunction_loop(tokens, left, after))

parse_disjunction(tokens, pos) ==
  unless_raised(parse_conjunction(tokens, pos),
    LAMBDA left, after : disjunction_loop(tokens, left, after))

\* The implication loop folding to the right.
implication_loop_right_associative(tokens, left, pos) ==
  IF peek(tokens, pos).type = "IMPLICATION"
  THEN unless_raised(parse_implication(tokens, pos + 1),
         LAMBDA right, after : Parsed(Implication(left, right), after))
  ELSE Parsed(left, pos)

implication_loop(tokens, left, pos) ==
  IF peek(tokens, pos).type = "IMPLICATION"
  THEN unless_raised(parse_disjunction(tokens, pos + 1),
         LAMBDA right, after : implication_loop(tokens, Implication(left, right), after))
  ELSE Parsed(left, pos)

parse_implication(tokens, pos) ==
  unless_raised(parse_disjunction(tokens, pos),
    LAMBDA left, after : implication_loop(tokens, left, after))

biconditional_loop(tokens, left, pos) ==
  IF peek(tokens, pos).type = "BICONDITIONAL"
  THEN unless_raised(parse_implication(tokens, pos + 1),
         LAMBDA right, after : biconditional_loop(tokens, Biconditional(left, right), after))
  ELSE Parsed(left, pos)

parse_biconditional(tokens, pos) ==
  unless_raised(parse_implication(tokens, pos),
    LAMBDA left, after : biconditional_loop(tokens, left, after))

\* parse() without the test for remaining tokens.
parse_without_end_test(tokens) == parse_biconditional(tokens, 0)

\* ExpressionParser(tokens).parse()
parse(tokens) ==
  LET whole == parse_biconditional(tokens, 0)
  IN  IF whole.raised THEN whole
      ELSE IF whole.pos < Len(tokens)
      THEN ValueError("Unexpected token: " \o tokens[whole.pos + 1].type)
      ELSE whole

\* ----------------------------------------------------------------- inputs
\* Symbols of the bounded Horn knowledge bases.
HornAtoms == {"a", "b", "c"}

\* Largest number of symbol occurrences (premises and conclusions) in the
\* rules of a bounded Horn knowledge base.
MaxRuleSymbols == 5

\* Largest number of sentences of a bounded general knowledge base; their
\* connective nodes add up to at most MaxExprSize.
MaxSentences == 1

RulesOfSize(k) ==
  {Rule(p, c) : p \in [1..(k - 1) -> HornAtoms], c \in HornAtoms}

RECURSIVE RuleListsOfSize(_)
RuleListsOfSize(n) ==
  IF n = 0 THEN {<<>>}
  ELSE UNION {{<<r>> \o rest : r \in RulesOfSize(k), rest \in RuleListsOfSize(n - k)} :
                k \in 2..n}

HornInputs(maxRuleSymbols) ==
  {[kb |-> KnowledgeBase(facts, rules), query |-> q] :
     facts \in SUBSET HornAtoms,
     rules \in UNION {RuleListsOfSize(n) : n \in 0..maxRuleSymbols},
     q \in HornAtoms}

RECURSIVE SentenceLists(_, _)
SentenceLists(len, size) ==
  IF len = 0 THEN (IF size = 0 THEN {<<>>} ELSE {})
  ELSE UNION {{<<e>> \o rest : e \in ExprsOfSize(k, ExprAtoms),
                               rest \in SentenceLists(len - 1, size - k)} :
                k \in 0..size}

GeneralInputs(maxSentences, maxExprSize) ==
  {[kb |-> GeneralKnowledgeBase(sentences), query |-> q] :
     sentences \in UNION {SentenceLists(len, size) :
                            len \in 0..maxSentences, size \in 0..maxExprSize},
     q \in ExprAtoms}

\* generate_chain_kb(length): p1 => p2, ..., p(length-1) => p(length), the
\* fact p1 and the query p(length).
generate_chain_kb(length) ==
  [kb |-> KnowledgeBase({"p1"},
                        [i \in 1..(length - 1) |->
                           Rule(<<"p" \o ToString(i)>>, "p" \o ToString(i + 1))]),
   query |-> "p" \o ToString(length)]

\* The chain lengths run_performance_tests uses.
test_sizes == {5, 10, 25, 50}

WideU == <<"u1", "u2", "u3", "u4", "u5", "u6", "u7">>

WideW == <<"w1", "w2", "w3", "w4", "w5", "w6", "w7">>

\* The symbols of the list whose bit is set in n, lowest bit first.
RECURSIVE Selected(_, _)
Selected(symbols, n) ==
  IF symbols = <<>> THEN <<>>
  ELSE (IF n % 2 = 1 THEN <<Head(symbols)>> ELSE <<>>)
       \o Selected(Tail(symbols), n \div 2)

\* A Horn KB whose first round of resolution yields more than 10000
\* resolvents: S => v for every non-empty selection S of WideU, v & T => z
\* for every non-empty selection T of WideW, the facts u1 and w1, and the
\* query z, which follows from u1 => v and v & w1 => z.
WideInput ==
  [kb |-> KnowledgeBase({"u1", "w1"},
            [n \in 1..127 |-> Rule(Selected(WideU, n), "v")]
            \o [n \in 1..127 |-> Rule(<<"v">> \o Selected(WideW, n), "z")]),
   query |-> "z"]

\* A Horn KB of max_clauses + 1 facts and no rule, asked for one of them.
ManyFactsInput ==
  [kb |-> KnowledgeBase({"a"} \cup {"p" \o ToString(i) : i \in 1..max_clauses}, <<>>),
   query |-> "a"]

\* The test files all four methods are run on.
Inputs(maxRuleSymbols, maxSentences, maxExprSize) ==
  HornInputs(maxRuleSymbols) \cup GeneralInputs(maxSentences, maxExprSize)

\* The inputs resolution is cross-checked on against the truth table.
LargeInputs ==
  {generate_chain_kb(n) : n \in test_sizes} \cup {WideInput, ManyFactsInput}

\* ---------------------------------------- the KB a call leaves behind
\* general_truth_table and horn_truth_table read kb.sentences,
\* kb.facts and kb.rules into the new set of symbols and write to that set,
\* to the models and to valid_models only.
kb_after_truth_table(kb, query) == kb

\* The facts left to an agenda that is kb.facts itself and is popped empty.
kb_after_forward_chaining_on_shared_agenda(kb, query) ==
  [kb EXCEPT !.facts = {}]

\* forward_chaining pops from and appends to agenda, which deque(kb.facts)
\* makes as a deque of its own; its other writes go to inferred, entailed,
\* count and rule_map.
kb_after_forward_chaining(kb, query) == kb

\* bc_recursive tests membership in kb.facts and iterates kb.rules; it writes
\* to visited, entailed and temp_entailed.
kb_after_backward_chaining(kb, query) == kb

\* convert_horn_kb_to_clauses and convert_general_kb_to_clauses fill a new
\* set, convert_to_cnf builds new expressions, and the negated query is
\* added to that new set.
kb_after_conversion(kb, query) == kb

\* ------------------------------------------------------------------ state
VARIABLES
  expr,        \* the Expression handed to convert_to_cnf
  cur,         \* the tree after `pass` passes of convert_to_cnf
  pass,        \* number of passes applied so far, 0..4
  run,         \* 1 for the first conversion, 2 for the conversion of its output
  extracted,   \* the Clause lists extract_clauses_from_cnf returned, per run
  raised,      \* TRUE when clause extraction raised an exception
  kb,          \* the knowledge base parse_file returned
  query,       \* the ASK line
  pc,          \* the methods still to run, in order
  results,     \* YES / NO / ERROR per method, as extract_result reads the output
  tt,          \* what truth_table returned
  fc,          \* what forward_chaining returned
  bc,          \* what backward_chaining returned
  clauses,     \* the working clause set of resolution_theorem_proving
  iteration,   \* its round counter
  outcome,     \* the return statement it left by, or "idle" / "running"
  returned,    \* the first component of what it returned
  consistent,  \* what validate_consistency returned
  text,        \* a line of formula text, as read from a file
  written,     \* the Expression the line was written down from, if any
  stage,       \* how far the line has got: file, text, tokens, parsed, ...
  kind,        \* the parser parse_file picks for a file holding the line
  lexed,       \* what tokenize returned or raised for the line
  parsed,      \* what ExpressionParser.parse returned or raised
  rendered,    \* str() of the parsed Expression
  reparsed,    \* what parsing the rendering returned or raised
  clause1,     \* the literals of the first Clause handed to resolve
  clause2,     \* the literals of the second Clause handed to resolve
  order,       \* the order the for loop visits clause1.literals in
  resolvents,  \* the list resolve returned
  resolved,    \* whether resolve has returned
  derivation_steps,  \* the list of that name in resolution_theorem_proving
  traced       \* whether derivation_steps is kept track of in this run

cnfVars == <<expr, cur, pass, run, extracted, raised>>

kbVars == <<kb, query>>

resVars == <<clauses, iteration, outcome, returned, derivation_steps, traced>>

harnessVars == <<pc, results, tt, fc, bc, consistent>>

parseVars == <<text, written, stage, kind, lexed, parsed, rendered, reparsed>>

resolveVars == <<clause1, clause2, order, resolvents, resolved>>

vars == <<cnfVars, kbVars, resVars, harnessVars, parseVars, resolveVars>>

methods == <<"TT", "FC", "BC", "RES">>

NoResult == [result |-> "none"]

InitHarnessIdle ==
  /\ kb = KnowledgeBase({}, <<>>)
  /\ query = "a"
  /\ pc = <<>>
  /\ results = [m \in Range(methods) |-> "none"]
  /\ tt = NoResult
  /\ fc = NoResult
  /\ bc = NoResult
  /\ clauses = {}
  /\ derivation_steps = <<>>
  /\ traced = FALSE
  /\ iteration = 0
  /\ outcome = "idle"
  /\ returned = "none"
  /\ consistent = "none"

\* The value of a result variable before the call that sets it.
NotRun == [raised |-> FALSE, notrun |-> TRUE]

\* No Expression: the line was not written down from one.
NoExpression == [type |-> "None"]

InitParseIdle ==
  /\ text = ""
  /\ written = NoExpression
  /\ stage = "idle"
  /\ kind = "none"
  /\ lexed = NotRun
  /\ parsed = NotRun
  /\ rendered = ""
  /\ reparsed = NotRun

InitResolveIdle ==
  /\ clause1 = {}
  /\ clause2 = {}
  /\ order = <<>>
  /\ resolvents = <<>>
  /\ resolved = FALSE

InitCnfIdle ==
  /\ expr = Atom("a")
  /\ cur = Atom("a")
  /\ pass = 0
  /\ run = 1
  /\ extracted = <<>>
  /\ raised = FALSE

\* -------------------------------------------- CNF conversion, step by step
InitCnf ==
  /\ expr \in Exprs(MaxExprSize, ExprAtoms)
  /\ cur = expr
  /\ pass = 0
  /\ run = 1
  /\ extracted = <<>>
  /\ raised = FALSE
  /\ InitHarnessIdle
  /\ InitParseIdle
  /\ InitResolveIdle

\* One assignment "expr = pass(expr)" of convert_to_cnf.
CnfPass ==
  /\ pass < 4
  /\ pass' = pass + 1
  /\ cur' = ApplyPass(pass + 1, cur)
  /\ UNCHANGED <<expr, run, extracted, raised, kbVars, parseVars, resolveVars, resVars, harnessVars>>

\* extract_clauses_from_cnf on the finished conversion; it has no raise.
ExtractClauses ==
  /\ pass = 4
  /\ Len(extracted) < run
  /\ extracted' = Append(extracted, extract_clauses_from_cnf(cur))
  /\ raised' = FALSE
  /\ UNCHANGED <<expr, cur, pass, run, kbVars, parseVars, resolveVars, resVars, harnessVars>>

\* convert_to_cnf called again on its own output.
ConvertAgain ==
  /\ pass = 4
  /\ run = 1
  /\ Len(extracted) = 1
  /\ expr' = cur
  /\ pass' = 0
  /\ run' = 2
  /\ UNCHANGED <<cur, extracted, raised, kbVars, parseVars, resolveVars, resVars, harnessVars>>

NextCnf == CnfPass \/ ExtractClauses \/ ConvertAgain

SpecCnf == InitCnf /\ [][NextCnf]_vars

\* ------------------------------------- the four methods on one test file
\* What extract_result makes of iengine's output for a method's result.
Printed(result) == IF result = "True" THEN "YES" ELSE "NO"

Init ==
  /\ \E input \in Inputs(MaxRuleSymbols, MaxSentences, MaxExprSize) :
       kb = input.kb /\ query = input.query
  /\ pc = methods
  /\ results = [m \in Range(methods) |-> "none"]
  /\ tt = NoResult
  /\ fc = NoResult
  /\ bc = NoResult
  /\ clauses = {}
  /\ derivation_steps = <<>>
  /\ traced = FALSE
  /\ iteration = 0
  /\ outcome = "idle"
  /\ returned = "none"
  /\ consistent = "none"
  /\ InitCnfIdle
  /\ InitParseIdle
  /\ InitResolveIdle

\* iengine.py <file> TT
TruthTable ==
  /\ pc # <<>> /\ Head(pc) = "TT"
  /\ tt' = truth_table(kb, query)
  /\ results' = [results EXCEPT !["TT"] = Printed(tt'.result)]
  /\ pc' = Tail(pc)
  /\ kb' = kb_after_truth_table(kb, query)
  /\ UNCHANGED <<cnfVars, resolveVars, query, parseVars, resVars, fc, bc, consistent>>

\* iengine.py <file> FC: an error message for a general KB.
ForwardChaining ==
  /\ pc # <<>> /\ Head(pc) = "FC"
  /\ IF kb.kind = "General"
     THEN /\ fc' = fc
          /\ results' = [results EXCEPT !["FC"] = "ERROR"]
     ELSE \E facts \in Orders(kb.facts) :
            /\ fc' = forward_chaining(facts, kb.rules, query)
            /\ results' = [results EXCEPT !["FC"] = Printed(fc'.result)]
  /\ kb' = IF kb.kind = "General" THEN kb ELSE kb_after_forward_chaining(kb, query)
  /\ pc' = Tail(pc)
  /\ UNCHANGED <<cnfVars, resolveVars, query, parseVars, resVars, tt, bc, consistent>>

\* iengine.py <file> BC: an error message for a general KB.
BackwardChaining ==
  /\ pc # <<>> /\ Head(pc) = "BC"
  /\ IF kb.kind = "General"
     THEN /\ bc' = bc
          /\ results' = [results EXCEPT !["BC"] = "ERROR"]
     ELSE /\ bc' = backward_chaining(kb, query)
          /\ results' = [results EXCEPT !["BC"] = Printed(bc'.result)]
  /\ kb' = IF kb.kind = "General" THEN kb ELSE kb_after_backward_chaining(kb, query)
  /\ pc' = Tail(pc)
  /\ UNCHANGED <<cnfVars, resolveVars, query, parseVars, resVars, tt, fc, consistent>>

\* resolution_theorem_proving up to the while loop.
ResolutionStart ==
  /\ pc # <<>> /\ Head(pc) = "RES"
  /\ outcome = "idle"
  /\ clauses' = InitialClauses(kb, query)
  /\ iteration' = 0
  /\ outcome' = "running"
  /\ derivation_steps' = <<>>
  /\ kb' = kb_after_conversion(kb, query)
  /\ UNCHANGED <<cnfVars, resolveVars, query, parseVars, harnessVars, returned, traced>>

Return(how, value) ==
  /\ outcome' = how
  /\ returned' = value
  /\ results' = [results EXCEPT !["RES"] = Printed(value)]
  /\ pc' = Tail(pc)

\* derivation_steps.append(...) for each of the entries.
Appended(entries) ==
  IF traced THEN derivation_steps \o entries ELSE derivation_steps

\* One test of the while condition and, when it holds, one round.
ResolutionRound ==
  /\ pc # <<>> /\ Head(pc) = "RES"
  /\ outcome = "running"
  /\ IF iteration < max_iterations
     THEN /\ iteration' = iteration + 1
          /\ \E clause_list \in (IF traced THEN Orders(clauses) ELSE clause_lists(clauses)) :
             \E steps \in (IF traced THEN round_steps(iteration', clause_list) ELSE {<<>>}) :
               IF DerivesEmptyClause(clauses, clause_list)
               THEN /\ Return("empty_clause", "True")
                    /\ derivation_steps' = Appended(steps)
                    /\ clauses' = clauses
               ELSE LET new_clauses == NewClauses(clauses, clause_list)
                    IN  IF new_clauses \subseteq clauses
                        THEN /\ Return("fixpoint", "False")
                             /\ derivation_steps' = Appended(steps \o
                                  <<Message("No new clauses generated after "
                                            \o ToString(iteration')
                                            \o " iterations - cannot prove query")>>)
                             /\ clauses' = clauses
                        ELSE /\ clauses' = update(clauses, new_clauses)
                             /\ IF TooLarge(clauses')
                                THEN /\ Return("too_large", "False")
                                     /\ derivation_steps' = Appended(steps \o
                                          <<Message("Clause set too large - terminating")>>)
                                ELSE /\ derivation_steps' = Appended(steps)
                                     /\ UNCHANGED <<outcome, returned, results, pc>>
     ELSE /\ Return("max_iterations", "False")
          /\ derivation_steps' = Appended(<<Message("Maximum iterations ("
                                   \o ToString(max_iterations) \o ") reached")>>)
          /\ UNCHANGED <<clauses, iteration>>
  /\ UNCHANGED <<cnfVars, resolveVars, kbVars, parseVars, tt, fc, bc, consistent, traced>>

\* validate_consistency over the YES / NO results.
validate_consistency(res) ==
  LET outcomes == {res[m] : m \in {n \in DOMAIN res : res[n] \in {"YES", "NO"}}}
  IN  Cardinality(outcomes) = 1

Validate ==
  /\ pc = <<>>
  /\ results["TT"] # "none"
  /\ consistent = "none"
  /\ consistent' = PyBool(validate_consistency(results))
  /\ UNCHANGED <<cnfVars, resolveVars, kbVars, parseVars, resVars, pc, results, tt, fc, bc>>

Next ==
  \/ TruthTable
  \/ ForwardChaining
  \/ BackwardChaining
  \/ ResolutionStart
  \/ ResolutionRound
  \/ Validate

Spec == Init /\ [][Next]_vars

\* ------------------ resolution cross-checked against the truth table
InitRes ==
  /\ \E input \in Inputs(MaxRuleSymbols, MaxSentences, MaxExprSize) \cup LargeInputs :
       kb = input.kb /\ query = input.query
  /\ pc = <<"TT", "RES">>
  /\ results = [m \in Range(methods) |-> "none"]
  /\ tt = NoResult
  /\ fc = NoResult
  /\ bc = NoResult
  /\ clauses = {}
  /\ derivation_steps = <<>>
  /\ traced = FALSE
  /\ iteration = 0
  /\ outcome = "idle"
  /\ returned = "none"
  /\ consistent = "none"
  /\ InitCnfIdle
  /\ InitParseIdle
  /\ InitResolveIdle

NextRes == TruthTable \/ ResolutionStart \/ ResolutionRound \/ Validate

SpecRes == InitRes /\ [][NextRes]_vars

\* ------------------------------------------- a line of text, read and parsed
\* Longest line made of arbitrary characters.
MaxTextLen == 3

\* Longest line made of whole tokens.
MaxTokens == 4

\* The characters of the bounded lines: atom letters, a digit, the characters
\* the operators are made of, parentheses and the blank.
TextChars == {"a", "b", "1", "~", "&", "|", "=", "<", ">", "(", ")", " "}

\* The token texts of the bounded lines.
Lexemes == {"a", "b", "~", "&", "||", "=>", "<=>", "(", ")"}

RECURSIVE Join(_)
Join(pieces) == IF pieces = <<>> THEN "" ELSE Head(pieces) \o Join(Tail(pieces))

CharTexts(maxLen) ==
  UNION {{Join(f) : f \in [1..n -> TextChars]} : n \in 0..maxLen}

TokenTexts(maxTokens) ==
  UNION {{Join(f) : f \in [1..n -> Lexemes]} : n \in 0..maxTokens}

\* The grammar level of an Expression: the parsing method that builds it,
\* 1 for parse_biconditional up to 6 for parse_primary.
Level(e) ==
  CASE e.type = "Biconditional" -> 1
    [] e.type = "Implication" -> 2
    [] e.type = "Disjunction" -> 3
    [] e.type = "Conjunction" -> 4
    [] e.type = "Negation" -> 5
    [] e.type = "Atom" -> 6

\* An Expression written down with the parentheses the grammar needs and no
\* others: around a left operand looser than its operator, around a right
\* operand not tighter than its operator, around a negated binary operand.
RECURSIVE Unparse(_)
Unparse(e) ==
  LET Wrap(x, least) ==
        IF Level(x) >= least THEN Unparse(x) ELSE "(" \o Unparse(x) \o ")"
  IN  CASE e.type = "Atom" -> e.symbol
        [] e.type = "Negation" -> "~" \o Wrap(e.operand, 5)
        [] OTHER -> Wrap(e.left, Level(e)) \o Operator(e.type)
                    \o Wrap(e.right, Level(e) + 1)

\* The lines: arbitrary characters, arbitrary tokens, written Expressions.
ParseInputs(maxLen, maxTokens, maxExprSize) ==
  {[text |-> t, written |-> NoExpression] :
     t \in CharTexts(maxLen) \cup TokenTexts(maxTokens)}
  \cup {[text |-> Unparse(e), written |-> e] : e \in Exprs(maxExprSize, ExprAtoms)}

\* sub in content
Contains(content, sub) ==
  \E i \in 0..(Len(content) - Len(sub)) : LiteralAt(content, i, sub)

\* A file with one TELL line and an atom query.
FileContent(line) == "TELL\n" \o line \o "\nASK\na"

is_general_logic_file(content) ==
  \E op \in {"||", "<=>", "~"} : Contains(content, op)

InitParse ==
  /\ \E input \in ParseInputs(MaxTextLen, MaxTokens, MaxExprSize) :
       text = input.text /\ written = input.written
  /\ stage = "file"
  /\ kind = "none"
  /\ lexed = NotRun
  /\ parsed = NotRun
  /\ rendered = ""
  /\ reparsed = NotRun
  /\ InitCnfIdle
  /\ InitHarnessIdle
  /\ InitResolveIdle

\* parse_file choosing between parse_general_file and parse_horn_file.
Load ==
  /\ stage = "file"
  /\ kind' = IF is_general_logic_file(FileContent(text)) THEN "General" ELSE "Horn"
  /\ stage' = "text"
  /\ UNCHANGED <<cnfVars, resolveVars, kbVars, resVars, harnessVars,
                 text, written, lexed, parsed, rendered, reparsed>>

\* tokens = tokenize(line)
Tokenize ==
  /\ stage = "text"
  /\ lexed' = tokenize(text)
  /\ stage' = "tokens"
  /\ UNCHANGED <<cnfVars, resolveVars, kbVars, resVars, harnessVars,
                 text, written, kind, parsed, rendered, reparsed>>

\* sentence = ExpressionParser(tokens).parse()
Parse ==
  /\ stage = "tokens"
  /\ ~lexed.raised
  /\ parsed' = parse(lexed.tokens)
  /\ stage' = "parsed"
  /\ UNCHANGED <<cnfVars, resolveVars, kbVars, resVars, harnessVars,
                 text, written, kind, lexed, rendered, reparsed>>

\* str(sentence)
Render ==
  /\ stage = "parsed"
  /\ ~parsed.raised
  /\ rendered' = Str(parsed.expr)
  /\ stage' = "rendered"
  /\ UNCHANGED <<cnfVars, resolveVars, kbVars, resVars, harnessVars,
                 text, written, kind, lexed, parsed, reparsed>>

\* ExpressionParser(tokenize(str(sentence))).parse()
Reparse ==
  /\ stage = "rendered"
  /\ reparsed' = LET again == tokenize(rendered)
                 IN  IF again.raised THEN again ELSE parse(again.tokens)
  /\ stage' = "reparsed"
  /\ UNCHANGED <<cnfVars, resolveVars, kbVars, resVars, harnessVars,
                 text, written, kind, lexed, parsed, rendered>>

NextParse == Load \/ Tokenize \/ Parse \/ Render \/ Reparse

SpecParse == InitParse /\ [][NextParse]_vars

\* ------------------------------------ resolution asked a formula as query
\* Most connectives in the query and in the sentence of the knowledge base.
MaxQuerySize == 1

\* A general KB of one sentence and an ASK line holding a formula.
QueryInputs(maxQuerySize) ==
  {[kb |-> GeneralKnowledgeBase(<<sentence>>), query |-> Unparse(asked)] :
     sentence \in Exprs(maxQuerySize, ExprAtoms),
     asked \in Exprs(maxQuerySize, ExprAtoms)}

InitQuery ==
  /\ \E input \in QueryInputs(MaxQuerySize) :
       kb = input.kb /\ query = input.query
  /\ pc = <<"RES">>
  /\ results = [m \in Range(methods) |-> "none"]
  /\ tt = NoResult
  /\ fc = NoResult
  /\ bc = NoResult
  /\ clauses = {}
  /\ derivation_steps = <<>>
  /\ traced = FALSE
  /\ iteration = 0
  /\ outcome = "idle"
  /\ returned = "none"
  /\ consistent = "none"
  /\ InitCnfIdle
  /\ InitParseIdle
  /\ InitResolveIdle

NextQuery == ResolutionStart \/ ResolutionRound

SpecQuery == InitQuery /\ [][NextQuery]_vars

\* ------------------------------------------ resolution on the chain KBs
\* Every chain length up to the longest one run_performance_tests uses.
ChainLengths == 1..(CHOOSE n \in test_sizes : \A m \in test_sizes : m <= n)

InitChain ==
  /\ \E length \in ChainLengths :
       kb = generate_chain_kb(length).kb /\ query = generate_chain_kb(length).query
  /\ pc = <<"RES">>
  /\ results = [m \in Range(methods) |-> "none"]
  /\ tt = NoResult
  /\ fc = NoResult
  /\ bc = NoResult
  /\ clauses = {}
  /\ derivation_steps = <<>>
  /\ traced = FALSE
  /\ iteration = 0
  /\ outcome = "idle"
  /\ returned = "none"
  /\ consistent = "none"
  /\ InitCnfIdle
  /\ InitParseIdle
  /\ InitResolveIdle

NextChain == ResolutionStart \/ ResolutionRound

\* A call of resolution_theorem_proving runs on until it returns.
SpecChain == InitChain /\ [][NextChain]_vars /\ WF_vars(NextChain)

\* ------------------------------- proof attempts in any order on one KB
MaxFrameRuleSymbols == 3

MaxFrameExprSize == 1

InitFrame ==
  /\ \E input \in Inputs(MaxFrameRuleSymbols, MaxSentences, MaxFrameExprSize) :
       kb = input.kb /\ query = input.query
  /\ pc \in Orders(Range(methods))
  /\ results = [m \in Range(methods) |-> "none"]
  /\ tt = NoResult
  /\ fc = NoResult
  /\ bc = NoResult
  /\ clauses = {}
  /\ derivation_steps = <<>>
  /\ traced = FALSE
  /\ iteration = 0
  /\ outcome = "idle"
  /\ returned = "none"
  /\ consistent = "none"
  /\ InitCnfIdle
  /\ InitParseIdle
  /\ InitResolveIdle

\* A later call of resolution_theorem_proving starts from its own locals.
SpecFrame == InitFrame /\ [][Next]_vars

\* ------------------------------------------------- resolve on two clauses
MaxClauseSize == 3

\* Literals as the clauses of the prover hold them: atoms, their negations, and
\* the doubly negated atom a negated query adds.
ResolveLiterals == {"a", "~a", "b", "~b", "~~a"}

ClausesOfSize(maxClauseSize) ==
  {c \in SUBSET ResolveLiterals : Cardinality(c) <= maxClauseSize}

InitResolve ==
  /\ clause1 \in ClausesOfSize(MaxClauseSize)
  /\ clause2 \in ClausesOfSize(MaxClauseSize)
  /\ order \in Orders(clause1)
  /\ resolvents = <<>>
  /\ resolved = FALSE
  /\ InitCnfIdle
  /\ InitHarnessIdle
  /\ InitParseIdle

\* resolvents = resolve(clause1, clause2)
Resolve ==
  /\ ~resolved
  /\ resolvents' = resolve_in_order(order, clause1, clause2)
  /\ resolved' = TRUE
  /\ UNCHANGED <<cnfVars, kbVars, resVars, harnessVars, parseVars,
                 clause1, clause2, order>>

NextResolve == Resolve

SpecResolve == InitResolve /\ [][NextResolve]_vars

\* ------------------------------------- resolution with its trace kept
MaxTraceFacts == 1

MaxTraceExprSize == 0

\* Horn KBs of a few facts and no rule or the one rule p => c, and general KBs
\* of one sentence, asked for an atom.
TraceInputs(maxFacts, maxExprSize) ==
  {[kb |-> KnowledgeBase(facts, rules), query |-> q] :
     facts \in {f \in SUBSET HornAtoms : Cardinality(f) <= maxFacts},
     rules \in {<<>>} \cup {<<Rule(<<p>>, c)>> : p \in HornAtoms, c \in HornAtoms},
     q \in HornAtoms}
  \cup {[kb |-> GeneralKnowledgeBase(<<sentence>>), query |-> q] :
          sentence \in Exprs(maxExprSize, ExprAtoms), q \in ExprAtoms}

InitTrace ==
  /\ \E input \in TraceInputs(MaxTraceFacts, MaxTraceExprSize) :
       kb = input.kb /\ query = input.query
  /\ pc = <<"RES">>
  /\ results = [m \in Range(methods) |-> "none"]
  /\ tt = NoResult
  /\ fc = NoResult
  /\ bc = NoResult
  /\ clauses = {}
  /\ derivation_steps = <<>>
  /\ traced = TRUE
  /\ iteration = 0
  /\ outcome = "idle"
  /\ returned = "none"
  /\ consistent = "none"
  /\ InitCnfIdle
  /\ InitParseIdle
  /\ InitResolveIdle

NextTrace == ResolutionStart \/ ResolutionRound

SpecTrace == InitTrace /\ [][NextTrace]_vars

\* ---------------------------------- the start of a proof over a Horn KB
InitHornStart ==
  /\ \E input \in HornInputs(MaxRuleSymbols) :
       kb = input.kb /\ query = input.query
  /\ pc = <<"RES">>
  /\ results = [m \in Range(methods) |-> "none"]
  /\ tt = NoResult
  /\ fc = NoResult
  /\ bc = NoResult
  /\ clauses = {}
  /\ derivation_steps = <<>>
  /\ traced = FALSE
  /\ iteration = 0
  /\ outcome = "idle"
  /\ returned = "none"
  /\ consistent = "none"
  /\ InitCnfIdle
  /\ InitParseIdle
  /\ InitResolveIdle

\* resolution_theorem_proving up to its while loop.
NextHornStart == ResolutionStart

SpecHornStart == InitHornStart /\ [][NextHornStart]_vars

\* ------------- forward chaining, backward chaining and resolution on one
\* Horn KB, in the order run_single_test calls them after the truth table
InitHorn ==
  /\ \E input \in HornInputs(MaxRuleSymbols) :
       kb = input.kb /\ query = input.query
  /\ pc = <<"FC", "BC", "RES">>
  /\ results = [m \in Range(methods) |-> "none"]
  /\ tt = NoResult
  /\ fc = NoResult
  /\ bc = NoResult
  /\ clauses = {}
  /\ derivation_steps = <<>>
  /\ traced = FALSE
  /\ iteration = 0
  /\ outcome = "idle"
  /\ returned = "none"
  /\ consistent = "none"
  /\ InitCnfIdle
  /\ InitParseIdle
  /\ InitResolveIdle

NextHorn ==
  ForwardChaining \/ BackwardChaining \/ ResolutionStart \/ ResolutionRound

SpecHorn == InitHorn /\ [][NextHorn]_vars

\* --------------------------------------------- claims on the four methods
\* The value the fixpoint test returns with.
FixpointReturn == "False"

CapOutcomes == {"too_large", "max_iterations"}

Conclusions(k) == {k.rules[i].conclusion : i \in DOMAIN k.rules}

\* The distinct atoms of a knowledge base and its query.
KbAtoms(k, q) ==
  IF k.kind = "General"
  THEN UNION {extract_atoms_from_expr(k.sentences[i]) : i \in DOMAIN k.sentences} \cup {q}
  ELSE HornSymbols(k, q)

\* C1: on a knowledge base, Horn or general, of at most 8 distinct atoms
\* resolution_theorem_proving returns True exactly when truth_table reports
\* the query entailed, and False exactly when it reports it not entailed.
C1_ResolutionMatchesTruthTable ==
  (returned # "none" /\ Cardinality(KbAtoms(kb, query)) <= 8) =>
    returned = tt.result

\* C2: on a Horn knowledge base resolution_theorem_proving gives the verdict
\* truth_table gives, and a query that is neither a fact nor the conclusion
\* of a rule is not reported entailed.
C2_HornResolutionMatchesTruthTable ==
  (kb.kind = "Horn" /\ returned # "none" /\ tt.result # "None") =>
    /\ returned = tt.result
    /\ query \notin kb.facts \cup Conclusions(kb) => returned = "False"

\* C3: on a Horn knowledge base forward_chaining returns True if and only if
\* truth_table reports the query entailed.
C3_ForwardChainingMatchesTruthTable ==
  (kb.kind = "Horn" /\ fc.result # "none") => fc.result = tt.result

\* C4: on a Horn knowledge base backward_chaining returns True if and only
\* if truth_table reports the query entailed.
C4_BackwardChainingMatchesTruthTable ==
  (kb.kind = "Horn" /\ bc.result # "none") => bc.result = tt.result

\* C5: a proof attempt aborted by the clause-count cap or the iteration cap
\* returns a value different from the one a fixpoint failure returns.
C5_CapAbortDistinctFromFixpoint ==
  outcome \in CapOutcomes => returned # FixpointReturn

\* C6: at most 1000 rounds, no round starts with more than 10000
\* clauses in the working set, and a call that leaves by a cap returns False.
C6_NoRoundStartsAboveCap ==
  /\ iteration <= max_iterations
  /\ outcome = "running" => Cardinality(clauses) <= max_clauses
  /\ outcome \in CapOutcomes => returned = "False"

\* ------------------------------------------------ claims on CNF conversion
Models(A) == [A -> BOOLEAN]

IsIdentifier(s) ==
  /\ Len(s) >= 1
  /\ SubSeq(s, 1, 1) \in LowerLetters
  /\ \A i \in 2..Len(s) : SubSeq(s, i, i) \in DigitChars

IsLiteralText(s) ==
  \/ IsIdentifier(s)
  \/ /\ Len(s) >= 2
     /\ SubSeq(s, 1, 1) = "~"
     /\ IsIdentifier(SubSeq(s, 2, Len(s)))

\* C7: after every pass of convert_to_cnf the tree has the same truth value
\* as the Expression the conversion started from, under every assignment to
\* the atoms.
C7_CnfPreservesTruthValue ==
  \A model \in Models(ExprAtoms) :
    evaluate_expression(cur, model) = evaluate_expression(expr, model)

\* C7 witness: a finished conversion that rewrote an implication under a
\* negation into a different tree.
C7_Witness ==
  /\ pass = 4
  /\ run = 1
  /\ expr.type = "Negation"
  /\ expr.operand.type = "Implication"
  /\ cur # expr

\* C8: every literal of every clause extracted from convert_to_cnf(e) is an
\* atom identifier or '~' followed by an atom identifier.
C8_ClausesHoldOnlyLiterals ==
  \A i \in DOMAIN extracted :
    \A c \in Range(extracted[i]) :
      \A lit \in c : IsLiteralText(lit)

\* C9: the clauses extracted from the conversion of a conversion's output
\* are, as a set of literal sets, the clauses extracted from that output.
C9_ReconversionKeepsClauseSet ==
  Len(extracted) = 2 => Range(extracted[2]) = Range(extracted[1])

\* C10: when extraction meets a subtree inside a clause that is not a
\* disjunction, an atom or a negated atom, it raises, and the rendering of
\* the subtree is not put into a clause.
C10_ExtractionSurfacesNonLiteral ==
  (pass = 4 /\ Len(extracted) = run) =>
    \A t \in Stringified(cur) :
      /\ raised
      /\ \A c \in Range(extracted[run]) : Str(t) \notin c

\* ------------------------------------------- claims on tokenizer and parser
ParseDone == stage \in {"parsed", "rendered", "reparsed"}

TokenizeDone == stage \in {"tokens", "parsed", "rendered", "reparsed"}

TokenTypes(tokens) == [i \in DOMAIN tokens |-> tokens[i].type]

RECURSIVE Subexpressions(_)
Subexpressions(e) ==
  CASE e.type = "Atom" -> {e}
    [] e.type = "Negation" -> {e} \cup Subexpressions(e.operand)
    [] OTHER -> {e} \cup Subexpressions(e.left) \cup Subexpressions(e.right)

\* The token texts of an Expression from left to right, parentheses aside.
RECURSIVE Yield(_)
Yield(e) ==
  CASE e.type = "Atom" -> <<e.symbol>>
    [] e.type = "Negation" -> <<"~">> \o Yield(e.operand)
    [] OTHER -> Yield(e.left) \o <<Operator(e.type)>> \o Yield(e.right)

\* C12: the rendering of a parsed Expression parses, and to an Expression
\* structurally equal to the first parse.
C12_RenderingParsesToSameExpression ==
  stage = "reparsed" => (~reparsed.raised /\ reparsed.expr = parsed.expr)

C12_Witness ==
  /\ stage = "reparsed"
  /\ parsed.expr.type = "Negation"
  /\ IsBinary(parsed.expr.operand)
  /\ rendered # text
  /\ reparsed.expr = parsed.expr

\* C13: an Expression written down with only the parentheses that the order
\* biconditional, implication, disjunction, conjunction, negation, primary
\* needs (left operand at least as tight as its operator, right operand
\* tighter, anything looser in parentheses) parses back to itself.
C13_ParserBindsInGrammarOrder ==
  (ParseDone /\ written # NoExpression) =>
    (~parsed.raised /\ parsed.expr = written)

C13_Witness ==
  /\ ParseDone
  /\ written # NoExpression
  /\ written.type = "Conjunction"
  /\ written.left.type = "Disjunction"
  /\ parsed.expr = written

\* C14: in the parse of a line without parentheses every binary node has a
\* right operand that binds tighter than the node and a left operand that
\* binds at least as tight (a chain at one level is folded to the left), a
\* negation has a negation or an atom as operand, and the tokens of the tree
\* read from left to right are the tokens of the line.
C14_ChainsFoldLeft ==
  (ParseDone /\ ~parsed.raised
     /\ \A i \in DOMAIN lexed.tokens : lexed.tokens[i].type \notin {"LPAREN", "RPAREN"}) =>
    /\ Yield(parsed.expr) = [i \in DOMAIN lexed.tokens |-> lexed.tokens[i].text]
    /\ \A e \in Subexpressions(parsed.expr) :
         /\ IsBinary(e) => (Level(e.right) > Level(e) /\ Level(e.left) >= Level(e))
         /\ e.type = "Negation" => Level(e.operand) >= 5

C14_Witness ==
  /\ ParseDone
  /\ TokenTypes(lexed.tokens) = <<"ATOM", "IMPLICATION", "ATOM", "IMPLICATION", "ATOM">>
  /\ parsed.expr.type = "Implication"
  /\ parsed.expr.left.type = "Implication"
  /\ parsed.expr.right.type = "Atom"

\* Parentheses opened and not closed within the first n tokens.
Depth(tokens, n) ==
  Cardinality({i \in 1..n : tokens[i].type = "LPAREN"})
  - Cardinality({i \in 1..n : tokens[i].type = "RPAREN"})

OperandStart == {"ATOM", "LPAREN", "NEGATION"}

OperandEnd == {"ATOM", "RPAREN"}

\* A primary is expected and absent: at the start, after an operator or an
\* opening parenthesis, there is no atom, negation or opening parenthesis.
PrimaryAbsent(tokens) ==
  \/ tokens = <<>>
  \/ tokens[1].type \notin OperandStart
  \/ tokens[Len(tokens)].type \notin OperandEnd
  \/ \E i \in 1..(Len(tokens) - 1) :
       tokens[i].type \notin OperandEnd /\ tokens[i + 1].type \notin OperandStart

\* A token follows a complete expression that cannot continue it.
TokenRemains(tokens) ==
  \/ \E i \in 1..(Len(tokens) - 1) :
       tokens[i].type \in OperandEnd /\ tokens[i + 1].type \in OperandStart
  \/ \E n \in 1..Len(tokens) : Depth(tokens, n) < 0

ClosingMissing(tokens) == Depth(tokens, Len(tokens)) > 0

\* C15: parse returns an Expression only with every token consumed; it
\* raises, and returns no Expression, when a primary is expected and absent,
\* when a token remains after a complete expression and when a closing
\* parenthesis is missing, and in no other case.
C15_ParseConsumesAllOrRaises ==
  ParseDone =>
    /\ ~parsed.raised => parsed.pos = Len(lexed.tokens)
    /\ parsed.raised => "expr" \notin DOMAIN parsed
    /\ parsed.raised <=> \/ PrimaryAbsent(lexed.tokens)
                         \/ TokenRemains(lexed.tokens)
                         \/ ClosingMissing(lexed.tokens)

C15_Witness ==
  /\ ParseDone
  /\ parsed.raised
  /\ TokenTypes(lexed.tokens) = <<"ATOM", "CONJUNCTION", "ATOM", "RPAREN">>
  /\ parsed.message = "Unexpected token: RPAREN"

\* The line without its whitespace.
RECURSIVE WithoutWhitespace(_)
WithoutWhitespace(s) ==
  IF s = "" THEN ""
  ELSE (IF SubSeq(s, 1, 1) \in WhitespaceChars THEN "" ELSE SubSeq(s, 1, 1))
       \o WithoutWhitespace(SubSeq(s, 2, Len(s)))

\* The token type a text is a token of, "None" for a text that is no token.
TypeOfText(t) ==
  CASE t = "<=>" -> "BICONDITIONAL"
    [] t = "=>" -> "IMPLICATION"
    [] t = "||" -> "DISJUNCTION"
    [] t = "&" -> "CONJUNCTION"
    [] t = "~" -> "NEGATION"
    [] t = "(" -> "LPAREN"
    [] t = ")" -> "RPAREN"
    [] OTHER -> IF IsIdentifier(t) THEN "ATOM" ELSE "None"

\* No token starts with the characters at offset i.
NoTokenAt(s, i) ==
  /\ CharAt(s, i) \notin LowerLetters \cup WhitespaceChars \cup {"&", "~", "(", ")"}
  /\ \A t \in {"<=>", "=>", "||"} : ~LiteralAt(s, i, t)

\* C16: tokenize returns tokens, each a token text of its type, whose texts
\* in order make up the line without its whitespace; or it raises an error
\* with the offset and the character of the first position its scan reaches
\* at which no token starts: everything before the offset is tokens and
\* whitespace, and the offset is never at a '<=>'.
C16_TokenizeCoversLineOrNamesOffender ==
  TokenizeDone =>
    IF lexed.raised
    THEN /\ lexed.position \in 0..(Len(text) - 1)
         /\ lexed.character = CharAt(text, lexed.position)
         /\ NoTokenAt(text, lexed.position)
         /\ ~tokenize(SubSeq(text, 1, lexed.position)).raised
    ELSE /\ \A i \in DOMAIN lexed.tokens :
              lexed.tokens[i].type = TypeOfText(lexed.tokens[i].text)
         /\ Join([i \in DOMAIN lexed.tokens |-> lexed.tokens[i].text])
              = WithoutWhitespace(text)

C16_Witness ==
  /\ TokenizeDone
  /\ ~lexed.raised
  /\ text = "a<=>b"
  /\ TokenTypes(lexed.tokens) = <<"ATOM", "BICONDITIONAL", "ATOM">>

\* The line is a formula: it tokenizes and parses.
IsFormulaText(line) ==
  LET tokens == tokenize(line)
  IN  ~tokens.raised /\ ~parse(tokens.tokens).raised

\* C19: for a file whose TELL line is a formula, parse_file picks the
\* general parser when the line uses '~', '||', '<=>' or a parenthesis, and
\* the Horn parser only when the line is made of '&', '=>' and identifiers.
C19_LoaderPicksGeneralForGeneralSyntax ==
  (kind # "none" /\ IsFormulaText(text)) =>
    /\ (\E op \in {"~", "||", "<=>", "(", ")"} : Contains(text, op)) => kind = "General"
    /\ kind = "Horn" =>
         \A i \in DOMAIN tokenize(text).tokens :
           tokenize(text).tokens[i].type \in {"ATOM", "CONJUNCTION", "IMPLICATION"}

\* The clauses of the knowledge base alone.
KbClauses(k) ==
  IF k.kind = "General" THEN convert_general_kb_to_clauses(k)
  ELSE convert_horn_kb_to_clauses(k)

\* The ASK line as an Expression.
QueryExpression(line) == parse(tokenize(line).tokens).expr

\* C11: the clauses resolution starts from are those of the knowledge base
\* and the clauses extracted from the CNF of Negation(query): {~query} for
\* an atom, every clause of the CNF of the negation for any other query.
C11_QueryClausesAreCnfOfNegation ==
  (outcome = "running" /\ iteration = 0) =>
    clauses = KbClauses(kb)
              \cup Range(extract_clauses_from_cnf(
                           convert_to_cnf(Negation(QueryExpression(query)))))

\* C17: on the chain p1 => p2, ..., p(n-1) => pn with the fact p1 and the
\* query pn, n up to 50, resolution_theorem_proving returns True, and up to
\* then the round counter stays below 1000 and the working set within 10000
\* clauses.
C17_ChainEntailedWithinCaps ==
  /\ [](/\ iteration < max_iterations
        /\ Cardinality(clauses) <= max_clauses
        /\ returned \in {"none", "True"})
  /\ <>(returned = "True")

C17_Witness ==
  /\ query = "p50"
  /\ outcome = "empty_clause"
  /\ returned = "True"
  /\ iteration >= 2

ComplementaryLiterals ==
  LET HasComplement(l) == negate_literal(l) \in clause2
  IN  SelectSeq(order, HasComplement)

\* C20: resolve(c1, c2) returns exactly one resolvent for each literal l of c1
\* whose complement is in c2, the set (c1 minus {l}) union (c2 minus {complement
\* of l}), and no resolvent when the clauses share no complementary pair.
C20_ResolveOneResolventPerComplementaryLiteral ==
  resolved =>
    /\ Len(resolvents) = Cardinality({l \in clause1 : negate_literal(l) \in clause2})
    /\ \A i \in DOMAIN resolvents :
         resolvents[i] = (clause1 \ {ComplementaryLiterals[i]})
                         \cup (clause2 \ {negate_literal(ComplementaryLiterals[i])})
    /\ Range(resolvents) = resolve(clause1, clause2)

C20_Witness ==
  /\ resolved
  /\ Len(resolvents) = 2
  /\ resolvents[1] # resolvents[2]
  /\ {} \notin Range(resolvents)

\* -------------------------------------------- claims on the saturation loop
\* C21: whenever resolution_theorem_proving returns False because of the
\* fixpoint test, the working set is closed under resolution: for every two
\* distinct clauses, taken in either order, every resolvent is in the set, and
\* the empty clause is not in the set.
C21_FixpointSetClosedUnderResolution ==
  outcome = "fixpoint" =>
    /\ \A c1 \in clauses : \A c2 \in clauses \ {c1} : resolve(c1, c2) \subseteq clauses
    /\ {} \notin clauses

\* The entries of derivation_steps that record a resolution step.
ResolutionSteps == SelectSeq(derivation_steps, IsStep)

\* C22: the derivation trace records every resolvent computed, in the order
\* computed and with non-decreasing round numbers, and the call returns True
\* exactly when the last resolution step recorded produced the empty clause.
C22_TraceRecordsEveryResolvent ==
  /\ \A n \in DOMAIN ResolutionSteps :
       /\ ResolutionSteps[n].resolvent
            \in resolve(ResolutionSteps[n].clause1, ResolutionSteps[n].clause2)
       /\ \A m \in 1..(n - 1) :
            ResolutionSteps[m].iteration <= ResolutionSteps[n].iteration
  /\ clauses \subseteq InitialClauses(kb, query)
                       \cup {ResolutionSteps[n].resolvent : n \in DOMAIN ResolutionSteps}
  /\ outcome = "fixpoint" =>
       \A c1 \in clauses : \A c2 \in clauses \ {c1} :
         \E first \in {c1, c2} : \E second \in {c1, c2} \ {first} :
           \A resolvent \in resolve(first, second) :
             Step(iteration, first, second, resolvent) \in Range(ResolutionSteps)
  /\ returned # "none" =>
       (returned = "True" <=>
          /\ ResolutionSteps # <<>>
          /\ ResolutionSteps[Len(ResolutionSteps)].resolvent = {})

C22_Witness ==
  /\ returned = "True"
  /\ iteration >= 2
  /\ Len(ResolutionSteps) >= 3
  /\ ResolutionSteps[Len(ResolutionSteps)].resolvent = {}

\* -------------------------------------------- claims on the CNF passes
\* C23: the biconditional-elimination and implication-elimination passes
\* recurse into the children of every node, the operands of the node they
\* rewrite included: the tree after these two passes has no Biconditional
\* node and no Implication node at any depth.
C23_NoArrowLeftAfterEliminationPasses ==
  pass >= 2 =>
    \A t \in Subexpressions(cur) : t.type \notin {"Biconditional", "Implication"}

\* ------------------------------------------ claims on the Horn clause set
\* C24: for a Horn KB and query q the initial working set is exactly one unit
\* clause {f} per fact f, one clause {~p1, ..., ~pn, c} per rule with premises
\* p1..pn and conclusion c, and the unit clause {~q}; clauses with equal
\* literal sets are one element of the set.
C24_HornInitialClauseSet ==
  (kb.kind = "Horn" /\ outcome = "running" /\ iteration = 0) =>
    /\ \A clause \in clauses :
         \/ \E f \in kb.facts : clause = {f}
         \/ \E n \in DOMAIN kb.rules :
              clause = {"~" \o p : p \in Range(kb.rules[n].premises)}
                       \cup {kb.rules[n].conclusion}
         \/ clause = {"~" \o query}
    /\ \A f \in kb.facts : {f} \in clauses
    /\ \A n \in DOMAIN kb.rules :
         \E clause \in clauses :
           \A literal \in HornAtoms \cup {"~" \o p : p \in HornAtoms} :
             literal \in clause <=>
               \/ literal = kb.rules[n].conclusion
               \/ \E i \in DOMAIN kb.rules[n].premises :
                    literal = "~" \o kb.rules[n].premises[i]
    /\ {"~" \o query} \in clauses
    /\ Cardinality(clauses)
         <= Cardinality(kb.facts) + Len(kb.rules) + 1

\* C24 witness: two rules with the same literals, and a fact, give fewer
\* clauses than the KB has facts and rules.
C24_Witness ==
  /\ kb.kind = "Horn"
  /\ outcome = "running"
  /\ iteration = 0
  /\ Len(kb.rules) = 2
  /\ kb.rules[1] # kb.rules[2]
  /\ kb.facts # {}
  /\ Cardinality(clauses) = Cardinality(kb.facts) + 2

\* C25: backward_chaining returns on every Horn KB and query, cyclic rules
\* included: the calls that got past the visited test are for pairwise
\* different goals, exactly the goals in visited, all of them the query or a
\* premise of a rule, so there are at most as many as the KB has symbols.
C25_EachGoalExpandedAtMostOnce ==
  (kb.kind = "Horn" /\ results["BC"] # "none") =>
    /\ bc.result \in {"True", "False"}
    /\ \A i, j \in DOMAIN bc.expanded :
         bc.expanded[i] = bc.expanded[j] => i = j
    /\ Range(bc.expanded) = bc.visited
    /\ bc.visited \subseteq
         {query} \cup UNION {Range(rule.premises) : rule \in Range(kb.rules)}

\* C25 witness: the call has returned on a KB whose rules a => b and b => a
\* form a cycle, after expanding both symbols of the cycle.
C25_Witness ==
  /\ kb.kind = "Horn"
  /\ results["BC"] # "none"
  /\ \E r1, r2 \in Range(kb.rules) :
       /\ r1.premises = <<r2.conclusion>>
       /\ r2.premises = <<r1.conclusion>>
       /\ r1.conclusion # r2.conclusion
       /\ {r1.conclusion, r2.conclusion} \subseteq Range(bc.expanded)

\* The literals of a clause that do not begin with '~'.
PositiveLiterals(clause) ==
  {literal \in clause : ~(Len(literal) > 0 /\ SubSeq(literal, 1, 1) = "~")}

\* C26: in a proof over a Horn KB every clause of the working set has at most
\* one positive literal at every round; in the initial set the fact and rule
\* clauses have exactly one and the negated query has none.
C26_HornClausesStayHorn ==
  (kb.kind = "Horn" /\ outcome # "idle") =>
    /\ \A clause \in clauses : Cardinality(PositiveLiterals(clause)) <= 1
    /\ iteration = 0 =>
         /\ \A fact \in kb.facts :
              Cardinality(PositiveLiterals(Clause(<<fact>>))) = 1
         /\ \A rule \in Range(kb.rules) :
              Cardinality(PositiveLiterals(RuleClause(rule))) = 1
         /\ PositiveLiterals(Clause(<<"~" \o query>>)) = {}

\* C26 witness: after two rounds over a Horn KB the working set holds a
\* resolvent of two clauses that are themselves resolvents.
C26_Witness ==
  /\ kb.kind = "Horn"
  /\ iteration >= 2
  /\ \E left, right \in clauses \ InitialClauses(kb, query) :
       \E resolvent \in resolve(left, right) :
         resolvent \in clauses \ InitialClauses(kb, query)

\* The distinct literals of a clause set.
LiteralsOf(clause_set) == UNION clause_set

RECURSIVE TwoToThe(_)
TwoToThe(k) == IF k = 0 THEN 1 ELSE 2 * TwoToThe(k - 1)

\* C27: a round never removes a clause from the working set, every literal
\* of every clause in it occurs in some clause of the initial set, and so the
\* working set has at most 2^k clauses, k the number of distinct literals of
\* the initial set.
C27_WorkingSetGrowsWithinInitialLiterals ==
  /\ [][clauses \subseteq clauses']_vars
  /\ [](outcome # "idle" =>
          /\ InitialClauses(kb, query) \subseteq clauses
          /\ LiteralsOf(clauses) \subseteq LiteralsOf(InitialClauses(kb, query))
          /\ Cardinality(clauses) <=
               TwoToThe(Cardinality(LiteralsOf(InitialClauses(kb, query)))))

\* C27 witness: two rounds have each added a clause to the working set.
C27_Witness ==
  /\ iteration >= 2
  /\ Cardinality(clauses) >= Cardinality(InitialClauses(kb, query)) + 2
  /\ \E clause \in clauses \ InitialClauses(kb, query) :
       Cardinality(clause) >= 2

Arrows == {"Implication", "Biconditional"}

\* No Implication or Biconditional node of e has an Implication or
\* Biconditional node among its descendants.
NoArrowUnderArrow(e) ==
  \A node \in Subexpressions(e) :
    node.type \in Arrows =>
      \A below \in Subexpressions(node.left) \cup Subexpressions(node.right) :
        below.type \notin Arrows

IsLiteralTree(e) ==
  \/ e.type = "Atom"
  \/ e.type = "Negation" /\ e.operand.type = "Atom"

\* Disjunctions above atoms and negated atoms.
IsClauseTree(e) ==
  \A node \in Subexpressions(e) :
    \/ node.type = "Disjunction"
    \/ node.type = "Atom"
    \/ IsLiteralTree(node)

\* Conjunctions above disjunctions above atoms and negated atoms.
RECURSIVE IsCnfTree(_)
IsCnfTree(e) ==
  IF e.type = "Conjunction" THEN IsCnfTree(e.left) /\ IsCnfTree(e.right)
  ELSE IsClauseTree(e)

\* C28: for an Expression with no arrow below an arrow, convert_to_cnf
\* returns conjunctions above disjunctions above atoms and negated atoms, and
\* every literal of every clause extracted from it is an atom or '~' + atom
\* (extracted[run] holds the clauses of the conversion of expr).
C28_FlatArrowsConvertToCnf ==
  (NoArrowUnderArrow(expr) /\ pass = 4) =>
    /\ IsCnfTree(cur)
    /\ Len(extracted) = run =>
         \A clause \in Range(extracted[run]) :
           \A literal \in clause : IsLiteralText(literal)

\* C28 witness: the negation of a biconditional has been converted, which
\* takes every pass, and its clauses have been extracted.
C28_Witness ==
  /\ run = 1
  /\ pass = 4
  /\ expr.type = "Negation"
  /\ expr.operand.type = "Biconditional"
  /\ expr.operand.left # expr.operand.right
  /\ Len(extracted) = 1
  /\ Len(extracted[1]) >= 2

\* The Horn KB entails the symbol: it is true in every assignment to the
\* symbols that makes every fact and every rule of the KB true.
EntailedByKb(symbol) ==
  \A model \in [HornSymbols(kb, symbol) -> BOOLEAN] :
    satisfies_horn_kb(kb, model) => model[symbol]

\* C29: on a Horn KB, backward_chaining returns True only for a query the KB
\* entails, and every symbol of the entailed list it returns is entailed by
\* the KB.
C29_BackwardChainingSound ==
  (kb.kind = "Horn" /\ results["BC"] # "none") =>
    /\ bc.result = "True" => EntailedByKb(query)
    /\ \A symbol \in Range(bc.entailed) : EntailedByKb(symbol)

\* C29 witness: the query was proven through a rule whose premise was itself
\* proven through a rule, in a KB that does not entail every symbol.
C29_Witness ==
  /\ kb.kind = "Horn"
  /\ bc.result = "True"
  /\ query \notin kb.facts
  /\ \E rule \in Range(kb.rules) :
       /\ rule.conclusion = query
       /\ Range(rule.premises) \subseteq Range(bc.entailed) \ kb.facts
  /\ \E symbol \in HornAtoms : ~EntailedByKb(symbol)

\* C30: on a Horn KB, forward_chaining returns True for every query the KB
\* entails, and it returns at all: no symbol is appended to the agenda by a
\* rule more than once.
C30_ForwardChainingComplete ==
  (kb.kind = "Horn" /\ results["FC"] # "none") =>
    /\ fc.result \in {"True", "False"}
    /\ EntailedByKb(query) => fc.result = "True"
    /\ \A i, j \in DOMAIN fc.added : fc.added[i] = fc.added[j] => i = j

\* C30 witness: an entailed query was reached after two rules had fired, in
\* a KB with a rule that concludes one of its own premises.
C30_Witness ==
  /\ kb.kind = "Horn"
  /\ fc.result = "True"
  /\ query \notin kb.facts
  /\ EntailedByKb(query)
  /\ Len(fc.added) >= 2
  /\ \E rule \in Range(kb.rules) : rule.conclusion \in Range(rule.premises)

====
